---- MODULE Spec2Model ----
(***************************************************************************)
(* Foodgram backend: the relational tables (recipes, ingredient rows,      *)
(* shopping cart, favorites, subscriptions) and the request handlers that  *)
(* read and write them.  Every handler is one atomic action; the last      *)
(* HTTP response is kept in the variable response.                         *)
(***************************************************************************)
EXTENDS Integers, Sequences, FiniteSets, Bags, TLC

\* ------------------------------------------------------------------ bounds
NumUsers == 3          \* registered users 1..NumUsers
NumShoppers == 2       \* the users among them that send recipe, cart and favorite requests
MaxRecipes == 2        \* recipe primary keys handed out: 1..MaxRecipes
NumCodes == 2          \* outcomes of the random short-code generator that are drawn
NumIngredients == 2    \* rows of the Ingredient catalogue that requests name
MaxAmount == 2         \* amounts 1..MaxAmount in recipe requests
NumTags == 1           \* tags 1..NumTags
NumRequests == 2       \* requests handled at the same time
MaxFileRows == 2       \* data rows of an ingredient file
MaxRows == 2           \* aggregated rows of a generated export

\* ------------------------------------------------------- program constants
HTTP_200_OK == 200
HTTP_201_CREATED == 201
HTTP_204_NO_CONTENT == 204
HTTP_302_FOUND == 302
HTTP_400_BAD_REQUEST == 400
HTTP_404_NOT_FOUND == 404
HTTP_500_INTERNAL_SERVER_ERROR == 500

VARIABLES
    recipes,             \* Recipe table: pk -> [author, short_link, tags, cooking_time]
    nextId,              \* next Recipe primary key of the sequence
    recipe_ingredients,  \* IngredientInRecipe table: set of [recipe, ingredient, amount]
    shopping_cart,       \* ShoppingCart table: bag of <<user, recipe>> rows
    favorite,            \* Favorite table: bag of <<user, recipe>> rows
    subscription,        \* Subscription table: bag of <<user, author>> rows
    response,            \* the response to the last request
    ingredient_rows,     \* Ingredient table: pk -> [name, measurement_unit]
    inflight,            \* requests being handled step by step: id -> local state
    waiter,              \* the wait_for_db process: position, loop index, counters
    db                   \* whether the database server accepts connections

vars == <<recipes, nextId, recipe_ingredients, shopping_cart, favorite,
          subscription, response, ingredient_rows, inflight, waiter, db>>

\* what a request handled in one step leaves alone: the ingredient catalogue, the
\* requests handled step by step, and the start-up script with its database server
background == <<ingredient_rows, inflight, waiter, db>>

Users == 1..NumUsers
Shoppers == 1..NumShoppers
\* ids a request may name as a user: the existing ones and one that does not exist
UserIds == 1..(NumUsers + 1)
\* ids a request may name as a recipe: every key of the sequence and one never issued
RecipePks == 1..(MaxRecipes + 1)

NoCode == <<>>

\* no e-mail message
NoMail == <<>>

\* A response: the request it answers (op, user, target id, code, format, e-mail
\* address of the body, state of the mail transport while it was handled) and the
\* answer (status, content type, attachment file name, what the body says, the
\* aggregated rows it carries, the e-mail message the transport accepted); for a
\* creation, code is the short code generated.
Response(op, user, target, status) ==
    [op |-> op, user |-> user, target |-> target, status |-> status,
     code |-> NoCode, fmt |-> "", mime |-> "", filename |-> "", content |-> "",
     rows |-> {}, email |-> "", transport |-> "", mail |-> NoMail]

\* QuerySet.delete(): the table without the rows of the keys in doomed
DeleteRows(table, doomed) == [p \in DOMAIN table \ doomed |-> table[p]]

\* ------------------------------------------------------------ subscriptions
\* get_object(): the author named in the URL exists
AuthorExists(author) == author \in Users

\* a subscribe view without the self check
IsSelfNever(user, author) == FALSE

\* views.py:173  user == author
IsSelf(user, author) == user = author

\* views.py:179  Subscription.objects.filter(user=user, author=author).exists()
SubscriptionExists(user, author) == BagIn(<<user, author>>, subscription)

\* user/models.py:70  UniqueConstraint(fields=['user', 'author'])
UniqueSubscription(user, author) == ~BagIn(<<user, author>>, subscription)

\* a delete that filters on the user alone
SubscriptionDeleteSetByUser(user, author) == {<<user, x>> : x \in Users}

\* views.py:189  Subscription.objects.filter(user=user, author=author): the rows deleted
SubscriptionDeleteSet(user, author) == {<<user, author>>}

\* CustomUserViewSet.subscribe, POST
Subscribe(user, author) ==
    /\ UNCHANGED background
    /\ UNCHANGED <<recipes, nextId, recipe_ingredients, shopping_cart, favorite>>
    /\ IF ~AuthorExists(author)
       THEN /\ response' = Response("subscribe", user, author, HTTP_404_NOT_FOUND)
            /\ UNCHANGED subscription
       ELSE IF IsSelf(user, author)
       THEN /\ response' = Response("subscribe", user, author, HTTP_400_BAD_REQUEST)
            /\ UNCHANGED subscription
       ELSE IF SubscriptionExists(user, author)
       THEN /\ response' = Response("subscribe", user, author, HTTP_400_BAD_REQUEST)
            /\ UNCHANGED subscription
       ELSE IF ~UniqueSubscription(user, author)
       THEN \* IntegrityError out of create(): not caught by the view
            /\ response' = Response("subscribe", user, author,
                                    HTTP_500_INTERNAL_SERVER_ERROR)
            /\ UNCHANGED subscription
       ELSE /\ subscription' = subscription (+) SetToBag({<<user, author>>})
            /\ response' = Response("subscribe", user, author, HTTP_201_CREATED)

\* CustomUserViewSet.subscribe, DELETE
Unsubscribe(user, author) ==
    /\ UNCHANGED background
    /\ UNCHANGED <<recipes, nextId, recipe_ingredients, shopping_cart, favorite>>
    /\ IF ~AuthorExists(author)
       THEN /\ response' = Response("unsubscribe", user, author, HTTP_404_NOT_FOUND)
            /\ UNCHANGED subscription
       ELSE IF IsSelf(user, author)
       THEN /\ response' = Response("unsubscribe", user, author, HTTP_400_BAD_REQUEST)
            /\ UNCHANGED subscription
       ELSE LET doomed == SubscriptionDeleteSet(user, author) \cap DOMAIN subscription
            IN  IF doomed = {}
                THEN /\ response' = Response("unsubscribe", user, author,
                                             HTTP_400_BAD_REQUEST)
                     /\ UNCHANGED subscription
                ELSE /\ subscription' = DeleteRows(subscription, doomed)
                     /\ response' = Response("unsubscribe", user, author,
                                             HTTP_204_NO_CONTENT)

\* ------------------------------------------- subscriptions, step by step
\* The statements of subscribe that read or write the table are separate steps of
\* a request; the steps of requests handled at the same time interleave.
Requests == 1..NumRequests

\* a request that has been answered with status
Answered(r, status) == [inflight EXCEPT ![r].pc = "done", ![r].status = status]

\* views.py:171-177  the request arrives: get_object(), user == author
SubscribeBegin(r, user, author) ==
    /\ r \notin DOMAIN inflight
    /\ UNCHANGED <<recipes, nextId, recipe_ingredients, shopping_cart, favorite,
                   subscription, ingredient_rows, waiter, db>>
    /\ LET request == [op |-> "subscribe", user |-> user, author |-> author,
                       pc |-> "exists", status |-> 0]
           answer(status) == [request EXCEPT !.pc = "done", !.status = status]
       IN  IF ~AuthorExists(author)
           THEN /\ inflight' = inflight @@ (r :> answer(HTTP_404_NOT_FOUND))
                /\ response' = Response("subscribe", user, author, HTTP_404_NOT_FOUND)
           ELSE IF IsSelf(user, author)
           THEN /\ inflight' = inflight @@ (r :> answer(HTTP_400_BAD_REQUEST))
                /\ response' = Response("subscribe", user, author, HTTP_400_BAD_REQUEST)
           ELSE /\ inflight' = inflight @@ (r :> request)
                /\ UNCHANGED response

\* views.py:179-183  Subscription.objects.filter(user=user, author=author).exists()
SubscribeExists(r) ==
    /\ r \in DOMAIN inflight
    /\ inflight[r].pc = "exists"
    /\ UNCHANGED <<recipes, nextId, recipe_ingredients, shopping_cart, favorite,
                   subscription, ingredient_rows, waiter, db>>
    /\ IF SubscriptionExists(inflight[r].user, inflight[r].author)
       THEN /\ inflight' = Answered(r, HTTP_400_BAD_REQUEST)
            /\ response' = Response("subscribe", inflight[r].user, inflight[r].author,
                                    HTTP_400_BAD_REQUEST)
       ELSE /\ inflight' = [inflight EXCEPT ![r].pc = "create"]
            /\ UNCHANGED response

\* views.py:184-188  Subscription.objects.create(user=user, author=author): the
\* INSERT is refused by unique_subscription when the row is there by now, and the
\* IntegrityError is caught nowhere
SubscribeCreate(r) ==
    /\ r \in DOMAIN inflight
    /\ inflight[r].pc = "create"
    /\ UNCHANGED <<recipes, nextId, recipe_ingredients, shopping_cart, favorite,
                   ingredient_rows, waiter, db>>
    /\ LET user == inflight[r].user
           author == inflight[r].author
       IN  IF ~UniqueSubscription(user, author)
           THEN /\ inflight' = Answered(r, HTTP_500_INTERNAL_SERVER_ERROR)
                /\ response' = Response("subscribe", user, author,
                                        HTTP_500_INTERNAL_SERVER_ERROR)
                /\ UNCHANGED subscription
           ELSE /\ subscription' = subscription (+) SetToBag({<<user, author>>})
                /\ inflight' = Answered(r, HTTP_201_CREATED)
                /\ response' = Response("subscribe", user, author, HTTP_201_CREATED)

\* -------------------------------------------------------------- short codes
\* an alphabet of lowercase letters and punctuation
chars_lowercase ==
    <<"a", "b", "c", "d", "e", "f", "g", "h", "i", "j", "k", "l", "m",
      "n", "o", "p", "q", "r", "s", "t", "u", "v", "w", "x", "y", "z",
      "-", "_", ".", "~", "!", "*", "+", "=", ":", ";">>

\* models.py:25  chars = string.ascii_uppercase + string.digits
chars ==
    <<"A", "B", "C", "D", "E", "F", "G", "H", "I", "J", "K", "L", "M",
      "N", "O", "P", "Q", "R", "S", "T", "U", "V", "W", "X", "Y", "Z",
      "0", "1", "2", "3", "4", "5", "6", "7", "8", "9">>

\* models.py:24  generate_short_code(length=7)
CODE_LENGTH == 7

\* Outcomes of ''.join(random.choice(chars) for _ in range(length)) the model draws.
\* Every string of CODE_LENGTH characters of chars is a possible outcome; the model
\* draws the ones whose choices end in these positions of chars ("1"; "2"; "AZ";
\* "3"; "QX7B"; "ZZ9") after a run of position 27 ("0").
SampleSuffixes ==
    << <<28>>, <<29>>, <<1, 26>>, <<30>>, <<17, 24, 34, 2>>, <<26, 26, 36>> >>

SampleCode(k) ==
    LET suffix == SampleSuffixes[k]
        zeros == CODE_LENGTH - Len(suffix)
    IN  [i \in 1..CODE_LENGTH |-> chars[IF i <= zeros THEN 27 ELSE suffix[i - zeros]]]

\* generate_short_code(): the set of values one call may return
generate_short_code == {SampleCode(k) : k \in 1..NumCodes}

\* a Recipe table whose short_link column has no unique index
UniqueShortLinkOff(code) == TRUE

\* models.py:59  short_link unique=True: the INSERT is accepted
UniqueShortLink(code) == \A id \in DOMAIN recipes : recipes[id].short_link # code

\* models.py:99  Recipe.save: if not self.short_link: self.short_link = generate_short_code()
\* (the values short_link may have when the row is written)
SaveShortLink(short_link) ==
    IF short_link = NoCode THEN generate_short_code ELSE {short_link}

\* api/utils/base62.py is not part of the sources: decode_base62 is the base-62
\* reading of the code described by the specification, digits first.
Base62Alphabet ==
    <<"0", "1", "2", "3", "4", "5", "6", "7", "8", "9",
      "A", "B", "C", "D", "E", "F", "G", "H", "I", "J", "K", "L", "M",
      "N", "O", "P", "Q", "R", "S", "T", "U", "V", "W", "X", "Y", "Z",
      "a", "b", "c", "d", "e", "f", "g", "h", "i", "j", "k", "l", "m",
      "n", "o", "p", "q", "r", "s", "t", "u", "v", "w", "x", "y", "z">>

Base62Digit(c) == (CHOOSE i \in 1..Len(Base62Alphabet) : Base62Alphabet[i] = c) - 1

Base62Malformed(code) ==
    \E i \in 1..Len(code) : \A j \in 1..Len(Base62Alphabet) : Base62Alphabet[j] # code[i]

RECURSIVE Base62Value(_)
Base62Value(code) ==
    IF code = <<>> THEN 0
    ELSE Base62Value(SubSeq(code, 1, Len(code) - 1)) * Len(Base62Alphabet)
         + Base62Digit(code[Len(code)])

\* the id that is no recipe's: the "invalid id" signal for a malformed code
InvalidId == 0 - 1

decode_base62(code) == IF Base62Malformed(code) THEN InvalidId ELSE Base62Value(code)

\* RecipeViewSet.get_object(): the recipe named in the URL exists
RecipeLookup(pk) == pk \in DOMAIN recipes

\* a redirect that does not look the recipe up
get_object_or_404_skipped(recipe_id) == TRUE

\* views.py:112  get_object_or_404(Recipe, id=recipe_id): the recipe is found
get_object_or_404(recipe_id) == recipe_id \in DOMAIN recipes

\* codes a client may put in GET /r/<code>/: generated ones, short ones, malformed ones
RequestCodes ==
    generate_short_code
        \cup {<<"1">>, <<"2">>, <<"0", "3">>, <<"Z">>, <<"-">>, <<"1", "!", "2">>,
              <<"0", "0", "0", "0", "0", "0", "_">>}

\* views.py:110  redirect_to_recipe
redirect_to_recipe(short_code) ==
    /\ UNCHANGED background
    /\ UNCHANGED <<recipes, nextId, recipe_ingredients, shopping_cart, favorite,
                   subscription>>
    /\ LET recipe_id == decode_base62(short_code)
       IN  IF get_object_or_404(recipe_id)
           THEN response' = [Response("redirect", 0, recipe_id, HTTP_302_FOUND)
                                EXCEPT !.code = short_code, !.content = "redirect"]
           ELSE response' = [Response("redirect", 0, 0, HTTP_404_NOT_FOUND)
                                EXCEPT !.code = short_code]

\* ------------------------------------------------------------------ recipes
\* the Ingredient catalogue (unique on name and measurement_unit), by primary key
IngredientTable ==
    << [name |-> "flour", measurement_unit |-> "g"],
       [name |-> "egg", measurement_unit |-> "pcs"],
       [name |-> "milk", measurement_unit |-> "ml"],
       [name |-> "flour", measurement_unit |-> "kg"] >>

Tags == 1..NumTags

Range(seq) == {seq[i] : i \in 1..Len(seq)}

SeqsUpTo2(S) == {<<>>} \cup {<<x>> : x \in S} \cup {<<x, y>> : x \in S, y \in S}

\* the 'ingredients' value of a recipe request: a list of {id, amount}
IngredientItems == [id : 1..NumIngredients, amount : 1..MaxAmount]
IngredientInputs == SeqsUpTo2(IngredientItems)

\* the smallest payloads: one rejected, two accepted
MinimalIngredientInputs ==
    {<<>>, <<[id |-> 1, amount |-> 1]>>, <<[id |-> NumIngredients, amount |-> MaxAmount]>>}

\* the 'tags' value of a recipe request: a list of tag ids
TagInputs == SeqsUpTo2(Tags)

\* the 'cooking_time' value of a recipe request
CookingTimes == {0, 1}

\* one accepted tag list and one accepted cooking time
MinimalTagInputs == {<<1>>}
MinimalCookingTimes == {1}

\* a validator that only refuses the empty list
validate_ingredients_not_empty(value) == value # <<>>

\* serializers.py:237  validate_ingredients: non-empty, no ingredient twice
validate_ingredients(value) ==
    /\ value # <<>>
    /\ \A i, j \in 1..Len(value) : i # j => value[i].id # value[j].id

\* serializers.py:255  validate_tags: non-empty, no tag twice
validate_tags(value) ==
    /\ value # <<>>
    /\ Len(value) = Cardinality(Range(value))

\* serializers.py:281  validate_cooking_time
validate_cooking_time(value) == ~(value < 1)

\* a create_ingredients that stores the amount 1 in every row
create_ingredients_unit_amount(ingredients_data, recipe) ==
    {[recipe |-> recipe, ingredient |-> ingredients_data[i].id, amount |-> 1] :
        i \in 1..Len(ingredients_data)}

\* serializers.py:268  create_ingredients: the rows bulk_create inserts
create_ingredients(ingredients_data, recipe) ==
    {[recipe |-> recipe, ingredient |-> ingredients_data[i].id,
      amount |-> ingredients_data[i].amount] : i \in 1..Len(ingredients_data)}

\* api/permissions.py is not part of the sources: IsAuthorOrReadOnly lets only the
\* author of a recipe change or delete it.
IsAuthorOrReadOnly(user, pk) == recipes[pk].author = user

HTTP_403_FORBIDDEN == 403

\* RecipeViewSet.create: perform_create (author = request.user), then
\* RecipeWriteSerializer.create.  code is the value the short_link default drew,
\* fresh the value save() would draw.
CreateRecipe(author, ingredients, tags, cooking_time, code) ==
    /\ UNCHANGED background
    /\ nextId <= MaxRecipes
    /\ UNCHANGED <<shopping_cart, favorite, subscription>>
    /\ IF ~(/\ validate_ingredients(ingredients)
            /\ validate_tags(tags)
            /\ validate_cooking_time(cooking_time))
       THEN /\ response' = Response("create", author, 0, HTTP_400_BAD_REQUEST)
            /\ UNCHANGED <<recipes, nextId, recipe_ingredients>>
       ELSE \E short_link \in SaveShortLink(code) :
                IF ~UniqueShortLink(short_link)
                THEN \* IntegrityError out of Recipe.objects.create: nothing is
                     \* stored, the primary key drawn from the sequence is spent
                     /\ response' = [Response("create", author, 0,
                                              HTTP_500_INTERNAL_SERVER_ERROR)
                                        EXCEPT !.code = short_link]
                     /\ nextId' = nextId + 1
                     /\ UNCHANGED <<recipes, recipe_ingredients>>
                ELSE /\ recipes' = recipes @@
                            (nextId :> [author |-> author, short_link |-> short_link,
                                        tags |-> Range(tags),
                                        cooking_time |-> cooking_time])
                     /\ recipe_ingredients' =
                            recipe_ingredients \cup create_ingredients(ingredients, nextId)
                     /\ nextId' = nextId + 1
                     /\ response' = [Response("create", author, nextId, HTTP_201_CREATED)
                                        EXCEPT !.code = short_link]

\* RecipeViewSet.update (PUT): RecipeWriteSerializer.update
UpdateRecipe(user, pk, ingredients, tags, cooking_time) ==
    /\ UNCHANGED background
    /\ UNCHANGED <<nextId, shopping_cart, favorite, subscription>>
    /\ IF ~RecipeLookup(pk)
       THEN /\ response' = Response("update", user, pk, HTTP_404_NOT_FOUND)
            /\ UNCHANGED <<recipes, recipe_ingredients>>
       ELSE IF ~IsAuthorOrReadOnly(user, pk)
       THEN /\ response' = Response("update", user, pk, HTTP_403_FORBIDDEN)
            /\ UNCHANGED <<recipes, recipe_ingredients>>
       ELSE IF ~(/\ validate_ingredients(ingredients)
                 /\ validate_tags(tags)
                 /\ validate_cooking_time(cooking_time))
       THEN /\ response' = Response("update", user, pk, HTTP_400_BAD_REQUEST)
            /\ UNCHANGED <<recipes, recipe_ingredients>>
       ELSE /\ \E short_link \in SaveShortLink(recipes[pk].short_link) :
                   recipes' = [recipes EXCEPT
                                  ![pk].short_link = short_link,
                                  ![pk].cooking_time = cooking_time,
                                  ![pk].tags = Range(tags)]
            /\ recipe_ingredients' =
                   {row \in recipe_ingredients : row.recipe # pk}
                       \cup create_ingredients(ingredients, pk)
            /\ response' = Response("update", user, pk, HTTP_200_OK)

\* a field of a request body: given with a value, or not given
Given(value) == [present |-> TRUE, value |-> value]
NotGiven == [present |-> FALSE, value |-> <<>>]

\* ingredient lists of every kind: empty, of one item, of two ingredients, and
\* naming one ingredient twice
SampleIngredientInputs ==
    MinimalIngredientInputs
        \cup {<<[id |-> 1, amount |-> 1], [id |-> NumIngredients, amount |-> MaxAmount]>>,
               <<[id |-> 1, amount |-> 1], [id |-> 1, amount |-> MaxAmount]>>}

\* the payloads of recipe requests: these ingredient lists with accepted tags and
\* cooking time, and every tag list and cooking time with an accepted ingredient
\* list
RecipePayloads ==
    (SampleIngredientInputs \X MinimalTagInputs \X MinimalCookingTimes)
        \cup ({<<[id |-> 1, amount |-> 1]>>} \X TagInputs \X CookingTimes)

\* the payloads of update requests: those, and bodies without 'ingredients', without
\* 'tags' or without both
UpdatePayloads ==
    {<<Given(p[1]), Given(p[2]), p[3]>> : p \in RecipePayloads}
        \cup {<<NotGiven, Given(<<1>>), 1>>,
               <<Given(<<[id |-> 1, amount |-> 1]>>), NotGiven, 1>>,
               <<NotGiven, NotGiven, 1>>}

\* RecipeViewSet.update and partial_update: get_object, the permission, the
\* serializer's validation (a field that is not given is an error of PUT and is
\* skipped by PATCH), then RecipeWriteSerializer.update, whose
\* validated_data.pop('ingredients') and pop('tags') (serializers.py:306-307) raise
\* KeyError for a field that was not given
RecipeUpdateRequest(method, user, pk, ingredients, tags, cooking_time) ==
    LET refused(status, content) ==
            /\ response' = [Response("update", user, pk, status) EXCEPT !.content = content]
            /\ UNCHANGED <<recipes, nextId, recipe_ingredients, shopping_cart, favorite,
                           subscription>>
            /\ UNCHANGED background
    IN  IF ~RecipeLookup(pk) THEN refused(HTTP_404_NOT_FOUND, "")
        ELSE IF ~IsAuthorOrReadOnly(user, pk) THEN refused(HTTP_403_FORBIDDEN, "")
        ELSE IF \/ method = "PUT" /\ ~(ingredients.present /\ tags.present)
                \/ ingredients.present /\ ~validate_ingredients(ingredients.value)
                \/ tags.present /\ ~validate_tags(tags.value)
                \/ ~validate_cooking_time(cooking_time)
        THEN refused(HTTP_400_BAD_REQUEST, "")
        ELSE IF ~(ingredients.present /\ tags.present)
        THEN refused(HTTP_500_INTERNAL_SERVER_ERROR, "KeyError")
        ELSE UpdateRecipe(user, pk, ingredients.value, tags.value, cooking_time)

\* a foreign key that leaves the referring rows in place
OnDeleteDoNothing(table, pk) == table

\* models.py:116  on_delete=models.CASCADE of the (user, recipe) tables
OnDeleteCascade(table, pk) ==
    DeleteRows(table, {p \in DOMAIN table : p[2] = pk})

\* models.py:174  IngredientInRecipe.recipe on_delete=models.CASCADE
OnDeleteCascadeRows(rows, pk) == {row \in rows : row.recipe # pk}

\* RecipeViewSet.destroy: instance.delete() with the cascades of the models
DeleteRecipe(user, pk) ==
    /\ UNCHANGED background
    /\ UNCHANGED <<nextId, subscription>>
    /\ IF ~RecipeLookup(pk)
       THEN /\ response' = Response("delete", user, pk, HTTP_404_NOT_FOUND)
            /\ UNCHANGED <<recipes, recipe_ingredients, shopping_cart, favorite>>
       ELSE IF ~IsAuthorOrReadOnly(user, pk)
       THEN /\ response' = Response("delete", user, pk, HTTP_403_FORBIDDEN)
            /\ UNCHANGED <<recipes, recipe_ingredients, shopping_cart, favorite>>
       ELSE /\ recipes' = [id \in DOMAIN recipes \ {pk} |-> recipes[id]]
            /\ recipe_ingredients' = OnDeleteCascadeRows(recipe_ingredients, pk)
            /\ shopping_cart' = OnDeleteCascade(shopping_cart, pk)
            /\ favorite' = OnDeleteCascade(favorite, pk)
            /\ response' = Response("delete", user, pk, HTTP_204_NO_CONTENT)

\* ------------------------------------------------- recipes, step by step
\* RecipeWriteSerializer.create and update run their statements one after another
\* with no transaction around them; each statement that writes is a step.

\* the largest value of a PositiveSmallIntegerField column (models.py:181)
SMALLINT_MAX == 32767

\* the 'ingredients' values of the requests handled step by step: an empty list, an
\* accepted list, and a list whose amount passes IntegerField(min_value=...)
\* (serializers.py:166) and does not fit the column
StepIngredientInputs ==
    {<<>>, <<[id |-> 1, amount |-> 1]>>,
     <<[id |-> NumIngredients, amount |-> SMALLINT_MAX + 1]>>}

\* bulk_create is refused: an amount does not fit the column (DataError) or a
\* (recipe, ingredient) pair is already stored (unique_ingredient_in_recipe)
BulkCreateRefused(ingredients_data, recipe) ==
    \/ \E i \in 1..Len(ingredients_data) : ingredients_data[i].amount > SMALLINT_MAX
    \/ \E i \in 1..Len(ingredients_data) : \E row \in recipe_ingredients :
           row.recipe = recipe /\ row.ingredient = ingredients_data[i].id

\* the local state of a recipe request
RecipeRequest(op, user, pk, ingredients, tags, pc, status) ==
    [op |-> op, user |-> user, pk |-> pk, ingredients |-> ingredients, tags |-> tags,
     pc |-> pc, status |-> status]

\* serializers.py:295-297  validation, then Recipe.objects.create(**validated_data)
CreateInsert(r, author, ingredients, tags, cooking_time, code) ==
    /\ r \notin DOMAIN inflight
    /\ nextId <= MaxRecipes
    /\ UNCHANGED <<recipe_ingredients, shopping_cart, favorite, subscription,
                   ingredient_rows, waiter, db>>
    /\ IF ~(/\ validate_ingredients(ingredients)
            /\ validate_tags(tags)
            /\ validate_cooking_time(cooking_time))
       THEN /\ inflight' = inflight @@
                   (r :> RecipeRequest("create", author, 0, ingredients, tags, "done",
                                       HTTP_400_BAD_REQUEST))
            /\ response' = Response("create", author, 0, HTTP_400_BAD_REQUEST)
            /\ UNCHANGED <<recipes, nextId>>
       ELSE \E short_link \in SaveShortLink(code) :
                IF ~UniqueShortLink(short_link)
                THEN /\ inflight' = inflight @@
                            (r :> RecipeRequest("create", author, 0, ingredients, tags,
                                                "done", HTTP_500_INTERNAL_SERVER_ERROR))
                     /\ response' = [Response("create", author, 0,
                                              HTTP_500_INTERNAL_SERVER_ERROR)
                                        EXCEPT !.code = short_link]
                     /\ nextId' = nextId + 1
                     /\ UNCHANGED recipes
                ELSE /\ recipes' = recipes @@
                            (nextId :> [author |-> author, short_link |-> short_link,
                                        tags |-> {}, cooking_time |-> cooking_time])
                     /\ nextId' = nextId + 1
                     /\ inflight' = inflight @@
                            (r :> RecipeRequest("create", author, nextId, ingredients,
                                                tags, "tags", 0))
                     /\ UNCHANGED response

\* serializers.py:306-308  validation, then super().update(instance, validated_data)
UpdateSave(r, user, pk, ingredients, tags, cooking_time) ==
    /\ r \notin DOMAIN inflight
    /\ UNCHANGED <<nextId, recipe_ingredients, shopping_cart, favorite, subscription,
                   ingredient_rows, waiter, db>>
    /\ LET answer(status) ==
               /\ inflight' = inflight @@
                      (r :> RecipeRequest("update", user, pk, ingredients, tags, "done",
                                          status))
               /\ response' = Response("update", user, pk, status)
               /\ UNCHANGED recipes
       IN  IF ~RecipeLookup(pk) THEN answer(HTTP_404_NOT_FOUND)
           ELSE IF ~IsAuthorOrReadOnly(user, pk) THEN answer(HTTP_403_FORBIDDEN)
           ELSE IF ~(/\ validate_ingredients(ingredients)
                     /\ validate_tags(tags)
                     /\ validate_cooking_time(cooking_time))
           THEN answer(HTTP_400_BAD_REQUEST)
           ELSE /\ \E short_link \in SaveShortLink(recipes[pk].short_link) :
                       recipes' = [recipes EXCEPT ![pk].short_link = short_link,
                                                  ![pk].cooking_time = cooking_time]
                /\ inflight' = inflight @@
                       (r :> RecipeRequest("update", user, pk, ingredients, tags,
                                           "tags", 0))
                /\ UNCHANGED response

\* serializers.py:298, 309  recipe.tags.set(tags_data)
StepSetTags(r) ==
    /\ r \in DOMAIN inflight
    /\ inflight[r].pc = "tags"
    /\ UNCHANGED <<nextId, recipe_ingredients, shopping_cart, favorite, subscription,
                   response, ingredient_rows, waiter, db>>
    /\ recipes' = [recipes EXCEPT ![inflight[r].pk].tags = Range(inflight[r].tags)]
    /\ inflight' = [inflight EXCEPT ![r].pc = IF inflight[r].op = "create"
                                              THEN "ingredients" ELSE "delete"]

\* serializers.py:311  instance.recipe_ingredients.all().delete()
StepDeleteRows(r) ==
    /\ r \in DOMAIN inflight
    /\ inflight[r].pc = "delete"
    /\ UNCHANGED <<recipes, nextId, shopping_cart, favorite, subscription, response,
                   ingredient_rows, waiter, db>>
    /\ recipe_ingredients' = {row \in recipe_ingredients : row.recipe # inflight[r].pk}
    /\ inflight' = [inflight EXCEPT ![r].pc = "ingredients"]

\* serializers.py:299, 312  self.create_ingredients(ingredients_data, recipe): a
\* refused bulk_create raises, nothing catches it and the earlier writes stay
StepCreateIngredients(r) ==
    /\ r \in DOMAIN inflight
    /\ inflight[r].pc = "ingredients"
    /\ UNCHANGED <<recipes, nextId, shopping_cart, favorite, subscription,
                   ingredient_rows, waiter, db>>
    /\ LET request == inflight[r]
       IN  IF BulkCreateRefused(request.ingredients, request.pk)
           THEN /\ inflight' = Answered(r, HTTP_500_INTERNAL_SERVER_ERROR)
                /\ response' = Response(request.op, request.user, request.pk,
                                        HTTP_500_INTERNAL_SERVER_ERROR)
                /\ UNCHANGED recipe_ingredients
           ELSE LET status == IF request.op = "create" THEN HTTP_201_CREATED
                              ELSE HTTP_200_OK
                IN  /\ recipe_ingredients' =
                           recipe_ingredients
                               \cup create_ingredients(request.ingredients, request.pk)
                    /\ inflight' = Answered(r, status)
                    /\ response' = Response(request.op, request.user, request.pk, status)

\* ------------------------------------------------- shopping cart, favorites
\* a serializer that validates nothing
validate_skipped(table, user, recipe) == TRUE

\* serializers.py:338  BaseRecipeRelationSerializer.validate: the data is valid
\* unless Meta.model.objects.filter(user=user, recipe=recipe).exists()
validate(table, user, recipe) == ~BagIn(<<user, recipe>>, table)

\* models.py:136, models.py:214  UniqueConstraint(fields=['user', 'recipe'])
UniqueUserRecipe(table, user, recipe) == ~BagIn(<<user, recipe>>, table)

\* api/mixins.py is not part of the sources: RecipeActionMixin.perform_action is the
\* shared add/remove of the specification.  POST: the recipe must exist, the relation
\* serializer validates, the row is created.
perform_action_post(op, table, tableNext, user, pk) ==
    IF ~RecipeLookup(pk)
    THEN /\ response' = Response(op, user, pk, HTTP_404_NOT_FOUND)
         /\ tableNext = table
    ELSE IF ~validate(table, user, pk)
    THEN /\ response' = Response(op, user, pk, HTTP_400_BAD_REQUEST)
         /\ tableNext = table
    ELSE IF ~UniqueUserRecipe(table, user, pk)
    THEN \* IntegrityError out of create()
         /\ response' = Response(op, user, pk, HTTP_500_INTERNAL_SERVER_ERROR)
         /\ tableNext = table
    ELSE /\ tableNext = table (+) SetToBag({<<user, pk>>})
         /\ response' = Response(op, user, pk, HTTP_201_CREATED)

\* DELETE: the recipe must exist, the rows of (user, recipe) are deleted, and
\* deleting none is an error.
perform_action_delete(op, table, tableNext, user, pk) ==
    IF ~RecipeLookup(pk)
    THEN /\ response' = Response(op, user, pk, HTTP_404_NOT_FOUND)
         /\ tableNext = table
    ELSE IF ~BagIn(<<user, pk>>, table)
    THEN /\ response' = Response(op, user, pk, HTTP_400_BAD_REQUEST)
         /\ tableNext = table
    ELSE /\ tableNext = DeleteRows(table, {<<user, pk>>})
         /\ response' = Response(op, user, pk, HTTP_204_NO_CONTENT)

\* views.py:88  RecipeViewSet.shopping_cart, POST
shopping_cart_post(user, pk) ==
    /\ UNCHANGED background
    /\ perform_action_post("cart_add", shopping_cart, shopping_cart', user, pk)
    /\ UNCHANGED <<recipes, nextId, recipe_ingredients, favorite, subscription>>

\* views.py:88  RecipeViewSet.shopping_cart, DELETE
shopping_cart_delete(user, pk) ==
    /\ UNCHANGED background
    /\ perform_action_delete("cart_remove", shopping_cart, shopping_cart', user, pk)
    /\ UNCHANGED <<recipes, nextId, recipe_ingredients, favorite, subscription>>

\* a favorite action that is handed the ShoppingCart model
favorite_post_into_cart(user, pk) ==
    /\ UNCHANGED background
    /\ perform_action_post("favorite_add", shopping_cart, shopping_cart', user, pk)
    /\ UNCHANGED <<recipes, nextId, recipe_ingredients, favorite, subscription>>

\* views.py:74  RecipeViewSet.favorite, POST
favorite_post(user, pk) ==
    /\ UNCHANGED background
    /\ perform_action_post("favorite_add", favorite, favorite', user, pk)
    /\ UNCHANGED <<recipes, nextId, recipe_ingredients, shopping_cart, subscription>>

\* views.py:74  RecipeViewSet.favorite, DELETE
favorite_delete(user, pk) ==
    /\ UNCHANGED background
    /\ perform_action_delete("favorite_remove", favorite, favorite', user, pk)
    /\ UNCHANGED <<recipes, nextId, recipe_ingredients, shopping_cart, subscription>>

\* ----------------------------------------------------- shopping-list download
\* the names under which Recipe can be followed in a query: its fields and the
\* related_name of every foreign key to it (models.py:51-92, 131, 175, 209)
RecipeQueryNames ==
    {"id", "author", "short_link", "name", "image", "text", "cooking_time", "tags",
     "pub_date", "shopping_carts", "recipe_ingredients", "favorites"}

\* views.py:267, views.py:322  filter(recipe__in_shopping_carts__user=request.user)
CartLookupName == "in_shopping_carts"

\* QuerySet.filter resolves the lookup path when it is called and raises FieldError
\* for a name the model does not have
LookupResolves(name) == name \in RecipeQueryNames

\* a join that does not filter on the user: the cart rows of every user count
CartJoinAnyUser(user) ==
    {[row |-> row, copies |-> 1] :
        row \in {r \in recipe_ingredients :
                    \E u \in Users : BagIn(<<u, r.recipe>>, shopping_cart)}}

\* the rows of IngredientInRecipe joined to the ShoppingCart rows of the user: one
\* copy of an ingredient row for every cart row of its recipe
CartJoin(user) ==
    {[row |-> row, copies |-> CopiesIn(<<user, row.recipe>>, shopping_cart)] :
        row \in {r \in recipe_ingredients : BagIn(<<user, r.recipe>>, shopping_cart)}}

RECURSIVE SumAmount(_)
SumAmount(joined) ==
    IF joined = {} THEN 0
    ELSE LET j == CHOOSE x \in joined : TRUE
         IN  j.row.amount * j.copies + SumAmount(joined \ {j})

\* views.py:282  qs.values(name=F("ingredient__name"),
\* unit=F("ingredient__measurement_unit")).annotate(total=Sum("amount"))
Aggregate(joined) ==
    LET key(j) == <<IngredientTable[j.row.ingredient].name,
                    IngredientTable[j.row.ingredient].measurement_unit>>
        groups == {key(j) : j \in joined}
    IN  {[name |-> g[1], unit |-> g[2],
          total |-> SumAmount({j \in joined : key(j) = g})] : g \in groups}

\* the 'format' parameter of a download request; Absent when it is not sent
Absent == "<absent>"
FormatInputs == {Absent, "txt", "csv", "pdf", "PDF", "xml"}

\* str.lower() on the values of FormatInputs
Lower(str) == CASE str = "PDF" -> "pdf" [] OTHER -> str

\* views.py:263  request.GET.get('format', 'txt').lower()
FileFormat(format) == Lower(IF format = Absent THEN "txt" ELSE format)

\* views.py:402  csv.writer(output) with output = []: a list has no write method,
\* so the call raises TypeError
CsvWriterAccepts(output) == output # "list"

\* views.py:399  _generate_csv_content: TRUE when it returns, FALSE when it raises
_generate_csv_content_returns == CsvWriterAccepts("list")

\* views.py:307  except Exception: the generic error response
DownloadError(user, format) ==
    [Response("download", user, 0, HTTP_500_INTERNAL_SERVER_ERROR)
        EXCEPT !.fmt = format, !.content = "error"]

\* views.py:450-476  _text_response, _csv_response, _pdf_response
FileResponse(user, format, mime, filename, content, rows) ==
    [Response("download", user, 0, HTTP_200_OK)
        EXCEPT !.fmt = format, !.mime = mime, !.filename = filename,
               !.content = content, !.rows = rows]

\* views.py:261  DownloadShoppingCartView.get: the response returned
DownloadResponse(user, format) ==
    LET file_format == FileFormat(format)
    IN  IF ~LookupResolves(CartLookupName)
        THEN DownloadError(user, format)          \* FieldError out of filter()
        ELSE LET qs == CartJoin(user)
             IN  IF qs = {}
                 THEN IF file_format = "pdf"
                      THEN FileResponse(user, format, "application/pdf",
                                        "shopping_list.txt", "empty", {})
                      ELSE IF file_format = "csv"
                      THEN IF _generate_csv_content_returns
                           THEN FileResponse(user, format, "text/csv",
                                             "shopping_list.txt", "header", {})
                           ELSE DownloadError(user, format)
                      ELSE FileResponse(user, format, "text/plain",
                                        "shopping_list.txt", "empty", {})
                 ELSE LET data == Aggregate(qs)
                      IN  IF file_format = "pdf"
                          THEN FileResponse(user, format, "application/pdf",
                                            "shopping_list.pdf", "list", data)
                          ELSE IF file_format = "csv"
                          THEN IF _generate_csv_content_returns
                               THEN FileResponse(user, format, "text/csv",
                                                 "shopping_list.csv", "list", data)
                               ELSE DownloadError(user, format)
                          ELSE FileResponse(user, format, "text/plain",
                                            "shopping_list.txt", "list", data)

\* GET /api/recipes/download_shopping_cart/
DownloadShoppingCartGet(user, format) ==
    /\ UNCHANGED background
    /\ response' = DownloadResponse(user, format)
    /\ UNCHANGED <<recipes, nextId, recipe_ingredients, shopping_cart, favorite,
                   subscription>>

\* ------------------------------------------------------ shopping-list e-mail
\* user/models.py:13  CustomUser.email (unique): the registered address of a user
UserEmail(user) == "user" \o ToString(user) \o "@example.com"

\* the 'email' value of the request body; Absent when the body has none
EmailInputs == {Absent, "other@example.com"}

\* a JSON number as the 'format' value of the body
JsonNumber == "<number>"

\* the 'format' value of the request body
PostFormatInputs == FormatInputs \cup {JsonNumber}

\* the mail transport while a request is handled
TransportStates == {"up", "down"}

\* views.py:316  request.data.get('email', request.user.email)
Recipient(user, email) == IF email = Absent THEN UserEmail(user) ELSE email

\* views.py:317  request.data.get('format', 'txt').lower(): only a str has lower();
\* for any other JSON value the call raises AttributeError, outside the try block
HasLower(format) == format # JsonNumber

\* views.py:380  email_msg.send() (fail_silently=False): returns when the transport
\* takes the message and raises when it cannot be reached
SendReturns(transport) == transport = "up"

\* an attachment of the message: (filename, content, mimetype)
Attachment(filename, content, rows, mime) ==
    [filename |-> filename, content |-> content, rows |-> rows, mime |-> mime]

\* views.py:325-367  the body and the attachments composed for the message;
\* raised when rendering raises
MailParts(user, send_format) ==
    LET qs == CartJoin(user)
        data == Aggregate(qs)
    IN  IF qs = {}
        THEN [raised |-> FALSE, body |-> "empty", rows |-> {}, attachments |-> <<>>]
        ELSE IF send_format = "pdf"
        THEN [raised |-> FALSE, body |-> "attached", rows |-> {},
              attachments |-> <<Attachment("shopping_list.pdf", "list", data,
                                           "application/pdf")>>]
        ELSE IF send_format = "csv"
        THEN [raised |-> ~_generate_csv_content_returns, body |-> "attached",
              rows |-> {},
              attachments |-> <<Attachment("shopping_list.csv", "list", data,
                                           "text/csv")>>]
        ELSE \* content = self._generate_text_content(data): the body is the list
             [raised |-> FALSE, body |-> "list", rows |-> data,
              attachments |-> <<Attachment("shopping_list.txt", "list", data,
                                           "text/plain")>>]

\* the request a POST response answers
PostRequest(user, email, format, transport, status) ==
    [Response("send", user, 0, status)
        EXCEPT !.fmt = format, !.email = email, !.transport = transport]

\* a handler that answers 'sent' where it should report the error
PostErrorAsSent(user, email, format, transport) ==
    [PostRequest(user, email, format, transport, HTTP_200_OK) EXCEPT !.content = "sent"]

\* views.py:387  except Exception: the generic error response
PostError(user, email, format, transport) ==
    [PostRequest(user, email, format, transport, HTTP_500_INTERNAL_SERVER_ERROR)
        EXCEPT !.content = "error"]

\* an exception that leaves the view: the framework's own server-error answer
PostUnhandled(user, email, format, transport) ==
    [PostRequest(user, email, format, transport, HTTP_500_INTERNAL_SERVER_ERROR)
        EXCEPT !.content = "unhandled"]

\* views.py:369-385  the message that was sent and the 'sent' response
PostSent(user, email, format, transport, parts) ==
    [PostRequest(user, email, format, transport, HTTP_200_OK)
        EXCEPT !.content = "sent",
               !.mail = <<[to |-> <<Recipient(user, email)>>, body |-> parts.body,
                           rows |-> parts.rows, attachments |-> parts.attachments]>>]

\* views.py:314  DownloadShoppingCartView.post: the response returned
PostResponse(user, email, format, transport) ==
    IF ~HasLower(format)
    THEN PostUnhandled(user, email, format, transport)
    ELSE IF ~LookupResolves(CartLookupName)
    THEN PostError(user, email, format, transport)     \* FieldError out of filter()
    ELSE LET parts == MailParts(user, FileFormat(format))
         IN  IF parts.raised
             THEN PostError(user, email, format, transport)
             ELSE IF ~SendReturns(transport)
             THEN PostError(user, email, format, transport)
             ELSE PostSent(user, email, format, transport, parts)

\* POST /api/recipes/download_shopping_cart/
DownloadShoppingCartPost(user, email, format, transport) ==
    /\ UNCHANGED background
    /\ response' = PostResponse(user, email, format, transport)
    /\ UNCHANGED <<recipes, nextId, recipe_ingredients, shopping_cart, favorite,
                   subscription>>

\* ------------------------------------------------------- export generators
\* the sequences over S of length n at most
RECURSIVE SeqsUpTo(_, _)
SeqsUpTo(S, n) ==
    IF n = 0 THEN {<<>>}
    ELSE SeqsUpTo(S, n - 1)
             \cup {Append(seq, x) : seq \in {q \in SeqsUpTo(S, n - 1) : Len(q) = n - 1},
                                    x \in S}

\* Text is a sequence of characters.  The character U+2014 (em dash) of the line
\* format is written as one element.
EmDash == "U+2014"

\* the characters of the names and units of IngredientTable
Chars(str) ==
    CASE str = "flour" -> <<"f", "l", "o", "u", "r">>
      [] str = "egg" -> <<"e", "g", "g">>
      [] str = "milk" -> <<"m", "i", "l", "k">>
      [] str = "g" -> <<"g">>
      [] str = "pcs" -> <<"p", "c", "s">>
      [] str = "ml" -> <<"m", "l">>
      [] str = "kg" -> <<"k", "g">>

\* aggregated rows: plain names and units, and ones with a comma, a quote or a
\* newline
ExportRows ==
    {[name |-> name, unit |-> unit, total |-> total] :
        name \in {Chars("flour"), <<"a", ",", "b">>, <<"a", "\"", "b">>, <<"a", "\n", "b">>},
        unit \in {Chars("g"), <<"m", ",", "l">>},
        total \in {2, 150}}

\* the joined rows of a cart with recipe 1 (flour 100 g, egg 2) and recipe 2
\* (flour 50 g, milk 200 ml)
ScenarioJoin ==
    {[row |-> [recipe |-> 1, ingredient |-> 1, amount |-> 100], copies |-> 1],
     [row |-> [recipe |-> 1, ingredient |-> 2, amount |-> 2], copies |-> 1],
     [row |-> [recipe |-> 2, ingredient |-> 1, amount |-> 50], copies |-> 1],
     [row |-> [recipe |-> 2, ingredient |-> 3, amount |-> 200], copies |-> 1]}

\* views.py:286  data = [{'name': ..., 'unit': ..., 'total': ...} for item in
\* aggregated]: the query has no ORDER BY, so the rows come in any order
DataLists(aggregated) ==
    {[i \in DOMAIN seq |->
         [name |-> Chars(seq[i].name), unit |-> Chars(seq[i].unit), total |-> seq[i].total]] :
        seq \in {q \in [1..Cardinality(aggregated) -> aggregated] : Range(q) = aggregated}}

\* the data lists given to the generators
ExportInputs == SeqsUpTo(ExportRows, MaxRows) \cup DataLists(Aggregate(ScenarioJoin))

\* a call that returned text, a call that raised
Returned(text) == [raised |-> "", text |-> text]
Raised(exception) == [raised |-> exception, text |-> <<>>]

\* str(total) of a non-negative int: its decimal digits
RECURSIVE Str(_)
Str(n) ==
    LET digits == <<"0", "1", "2", "3", "4", "5", "6", "7", "8", "9">>
    IN  IF n < 10 THEN <<digits[n + 1]>>
        ELSE Str(n \div 10) \o <<digits[(n % 10) + 1]>>

\* sep.join(parts)
RECURSIVE join(_, _)
join(sep, parts) ==
    IF parts = <<>> THEN <<>>
    ELSE IF Len(parts) = 1 THEN parts[1]
    ELSE parts[1] \o sep \o join(sep, Tail(parts))

\* views.py:395  f"{item['name']} ({item['unit']}) — {item['total']}"
TextLine(item) ==
    item.name \o <<" ", "(">> \o item.unit \o <<")", " ", EmDash, " ">> \o Str(item.total)

\* a text generator that ends every line with a newline
_generate_text_content_trailing(data) ==
    Returned(join(<<>>, [i \in DOMAIN data |-> TextLine(data[i]) \o <<"\n">>]))

\* views.py:393  DownloadShoppingCartView._generate_text_content
_generate_text_content(data) ==
    Returned(join(<<"\n">>, [i \in DOMAIN data |-> TextLine(data[i])]))

\* utils.py:12-17  lines = []; for item in data: lines.append(...)
RECURSIVE TextLines(_, _)
TextLines(lines, data) ==
    IF data = <<>> THEN lines
    ELSE TextLines(Append(lines, TextLine(Head(data))), Tail(data))

\* utils.py:10  generate_text_content
generate_text_content(data) == Returned(join(<<"\n">>, TextLines(<<>>, data)))

\* views.py:403  the header row; its three Russian words are written in English
CsvHeader == <<"Ingredient", "Unit", "Amount">>

\* views.py:406  '\n'.join([','.join(map(str, row)) for row in output]) for an
\* output that holds the header and the rows written
JoinOutput(data) ==
    LET output == <<[i \in 1..3 |-> <<CsvHeader[i]>>]>>
                      \o [i \in DOMAIN data |->
                             <<data[i].name, data[i].unit, Str(data[i].total)>>]
    IN  join(<<"\n">>, [i \in DOMAIN output |-> join(<<",">>, output[i])])

\* views.py:399  DownloadShoppingCartView._generate_csv_content: csv.writer(output)
\* raises TypeError before a row is written
_generate_csv_content(data) ==
    IF CsvWriterAccepts("list") THEN Returned(JoinOutput(data)) ELSE Raised("TypeError")

\* utils.py:21  generate_csv_content: the same statements
generate_csv_content(data) ==
    IF CsvWriterAccepts("list") THEN Returned(JoinOutput(data)) ELSE Raised("TypeError")

\* a call of a generator on the data list at hand
Generate(op, result) ==
    /\ response.op = "data"
    /\ response' = [Response(op, 0, 0, 0)
                       EXCEPT !.rows = response.rows, !.content = result]
    /\ UNCHANGED <<recipes, nextId, recipe_ingredients, shopping_cart, favorite,
                   subscription, ingredient_rows, inflight, waiter, db>>

CallViewText == Generate("_generate_text_content", _generate_text_content(response.rows))

CallUtilsText == Generate("generate_text_content", generate_text_content(response.rows))

CallViewCsv == Generate("_generate_csv_content", _generate_csv_content(response.rows))

CallUtilsCsv == Generate("generate_csv_content", generate_csv_content(response.rows))

\* ---------------------------------------------------------- load_ingredients
\* the rows csv.reader yields: a name cell and a unit cell, or one cell only
FileRows ==
    {<<name, unit>> : name \in {"flour", " flour ", "salt"}, unit \in {"g", " g", "kg"}}
        \cup {<<"salt">>}

\* the header row of the data file
HeaderRow == <<"name", "measurement_unit">>

\* the data files: an empty file, and a header row followed by up to MaxFileRows rows
Files == {<<>>} \cup {<<HeaderRow>> \o rows : rows \in SeqsUpTo(FileRows, MaxFileRows)}

\* str.strip() on the cells of FileRows
Strip(str) == CASE str = " flour " -> "flour" [] str = " g" -> "g" [] OTHER -> str

\* a get_or_create that never looks the row up
get_or_create_always(table, name, unit) ==
    [table |-> Append(table, [name |-> name, measurement_unit |-> unit]),
     created |-> TRUE]

\* load_ingredients.py:40  Ingredient.objects.get_or_create(name=...,
\* measurement_unit=...): the table afterwards and whether a row was created
get_or_create(table, name, unit) ==
    IF \E pk \in DOMAIN table :
           table[pk].name = name /\ table[pk].measurement_unit = unit
    THEN [table |-> table, created |-> FALSE]
    ELSE [table |-> Append(table, [name |-> name, measurement_unit |-> unit]),
          created |-> TRUE]

\* load_ingredients.py:38-44  for row in reader: name, unit = row raises ValueError
\* for a row that has not two cells; the rows created before it stay
RECURSIVE LoadRows(_, _, _)
LoadRows(table, rows, count) ==
    IF rows = <<>> THEN [table |-> table, count |-> count, raised |-> FALSE]
    ELSE IF Len(Head(rows)) # 2 THEN [table |-> table, count |-> count, raised |-> TRUE]
    ELSE LET got == get_or_create(table, Strip(Head(rows)[1]), Strip(Head(rows)[2]))
         IN  LoadRows(got.table, Tail(rows),
                      count + (IF got.created THEN 1 ELSE 0))

\* load_ingredients.py:21  Command.handle on a file that was found: next(reader)
\* skips the first row and raises StopIteration on an empty file
LoadIngredients(file) ==
    /\ UNCHANGED <<recipes, nextId, recipe_ingredients, shopping_cart, favorite,
                   subscription, inflight, waiter, db>>
    /\ IF file = <<>>
       THEN /\ response' = [Response("load_ingredients", 0, 0, 1)
                               EXCEPT !.rows = {file}, !.content = "StopIteration"]
            /\ UNCHANGED ingredient_rows
       ELSE LET loaded == LoadRows(ingredient_rows, Tail(file), 0)
            IN  /\ ingredient_rows' = loaded.table
                /\ response' =
                       IF loaded.raised
                       THEN [Response("load_ingredients", 0, 0, 1)
                                EXCEPT !.rows = {file}, !.content = "ValueError"]
                       ELSE [Response("load_ingredients", 0, loaded.count, 0)
                                EXCEPT !.rows = {file}, !.content = "loaded"]

\* load_ingredients.py:23-32  no file was found: the command says so and returns
LoadIngredientsNoFile ==
    /\ response' = [Response("load_ingredients", 0, 0, 0) EXCEPT !.content = "no file"]
    /\ UNCHANGED <<recipes, nextId, recipe_ingredients, shopping_cart, favorite,
                   subscription, ingredient_rows, inflight, waiter, db>>

\* ---------------------------------------------------- generate_short_links
\* SQL NULL; short_link is a CharField without null=True (models.py:57), so the
\* column is NOT NULL and no row holds it
Null == <<"NULL">>

\* generate_short_links.py:10  Recipe.objects.filter(short_link__isnull=True)
short_link__isnull == {pk \in DOMAIN recipes : recipes[pk].short_link = Null}

\* the table after recipe.save() of the recipes of saved, each with the code of given
SaveAll(saved, given) ==
    [pk \in DOMAIN recipes |->
        IF pk \in saved THEN [recipes[pk] EXCEPT !.short_link = given[pk]]
        ELSE recipes[pk]]

\* unique=True holds in a table
UniqueShortLinks(table) ==
    \A a, b \in DOMAIN table : a # b => table[a].short_link # table[b].short_link

\* generate_short_links.py:9  Command.handle: every recipe of the queryset is saved
\* (Recipe.save gives it a code when it has none); a save whose code is taken
\* raises IntegrityError and ends the command with the earlier saves kept
GenerateShortLinks ==
    /\ UNCHANGED background
    /\ UNCHANGED <<nextId, recipe_ingredients, shopping_cart, favorite, subscription>>
    /\ \E saved \in SUBSET short_link__isnull :
       \E given \in [saved -> generate_short_code] :
           /\ UniqueShortLinks(SaveAll(saved, given))
           /\ recipes' = SaveAll(saved, given)
           /\ IF saved = short_link__isnull
              THEN response' = [Response("generate_short_links", 0, 0, 0)
                                   EXCEPT !.rows = saved, !.content = "done"]
              ELSE /\ \E pk \in short_link__isnull \ saved, code \in generate_short_code :
                          \E id \in DOMAIN recipes \ {pk} :
                              SaveAll(saved, given)[id].short_link = code
                   /\ response' = [Response("generate_short_links", 0, 0, 1)
                                       EXCEPT !.rows = saved, !.content = "IntegrityError"]

\* the short_link values of the rows of a database that was filled before the
\* column got its default: a generated code or the empty string
LegacyCodes == generate_short_code \cup {NoCode}

\* a recipe table of n legacy rows; the column is unique, so at most one row has
\* the empty string
LegacyRecipes(n) ==
    {table \in [1..n -> [author : Shoppers, short_link : LegacyCodes,
                         tags : {Range(tags) : tags \in MinimalTagInputs},
                         cooking_time : MinimalCookingTimes]] :
        UniqueShortLinks(table)}

\* ------------------------------------------------------------- wait_for_db
\* wait_for_db.py:13  max_retries = 15
max_retries == 15

\* wait_for_db.py:14  retry_delay = 5
retry_delay == 5

\* no exit status: the process is running or has returned from wait_for_db
NoExit == 0 - 1

\* the process before its first statement
WaiterStart ==
    [pc |-> "loop", i |-> 0, attempts |-> 0, failures |-> 0, slept |-> 0,
     exit |-> NoExit]

\* the statements of wait_for_db leave the tables and the requests alone
WaiterFrame ==
    UNCHANGED <<recipes, nextId, recipe_ingredients, shopping_cart, favorite,
                subscription, response, ingredient_rows, inflight, db>>

\* wait_for_db.py:16  for i in range(max_retries)
WaitLoop ==
    /\ waiter.pc = "loop"
    /\ waiter' = [waiter EXCEPT !.pc = IF waiter.i < max_retries THEN "connect"
                                       ELSE "failed"]
    /\ WaiterFrame

\* wait_for_db.py:18  psycopg2.connect(...): returns a connection when the server
\* accepts it and raises OperationalError when it does not
WaitConnect ==
    /\ waiter.pc = "connect"
    /\ IF db = "up"
       THEN waiter' = [waiter EXCEPT !.pc = "close", !.attempts = @ + 1]
       ELSE waiter' = [waiter EXCEPT !.pc = "except", !.attempts = @ + 1,
                                     !.failures = @ + 1]
    /\ WaiterFrame

\* a loop that goes on after a successful connection
WaitCloseAndContinue ==
    /\ waiter.pc = "close"
    /\ waiter' = [waiter EXCEPT !.pc = "sleep"]
    /\ WaiterFrame

\* wait_for_db.py:24-26  conn.close(); print(...); return
WaitClose ==
    /\ waiter.pc = "close"
    /\ waiter' = [waiter EXCEPT !.pc = "returned"]
    /\ WaiterFrame

\* wait_for_db.py:27-28  except OperationalError: print(...)
WaitExcept ==
    /\ waiter.pc = "except"
    /\ waiter' = [waiter EXCEPT !.pc = "sleep"]
    /\ WaiterFrame

\* wait_for_db.py:29  time.sleep(retry_delay), then the next iteration
WaitSleep ==
    /\ waiter.pc = "sleep"
    /\ waiter' = [waiter EXCEPT !.pc = "loop", !.i = @ + 1,
                                 !.slept = @ + retry_delay]
    /\ WaiterFrame

\* wait_for_db.py:31-32  print(...); exit(1)
WaitExit ==
    /\ waiter.pc = "failed"
    /\ waiter' = [waiter EXCEPT !.pc = "exited", !.exit = 1]
    /\ WaiterFrame

\* a step of the wait_for_db process
WaitStep ==
    \/ WaitLoop
    \/ WaitConnect
    \/ WaitClose
    \/ WaitExcept
    \/ WaitSleep
    \/ WaitExit

\* the database server of host 'db' starts accepting connections
DbStarts ==
    /\ db = "down"
    /\ db' = "up"
    /\ UNCHANGED <<recipes, nextId, recipe_ingredients, shopping_cart, favorite,
                   subscription, response, ingredient_rows, inflight, waiter>>

\* the database server stops accepting connections
DbStops ==
    /\ db = "up"
    /\ db' = "down"
    /\ UNCHANGED <<recipes, nextId, recipe_ingredients, shopping_cart, favorite,
                   subscription, response, ingredient_rows, inflight, waiter>>

\* ---------------------------------------------------------------- initial
Init ==
    /\ recipes = <<>>
    /\ nextId = 1
    /\ recipe_ingredients = {}
    /\ shopping_cart = EmptyBag
    /\ favorite = EmptyBag
    /\ subscription = EmptyBag
    /\ response = Response("none", 0, 0, 0)
    /\ ingredient_rows = IngredientTable
    /\ inflight = <<>>
    /\ waiter = WaiterStart
    /\ db = "down"

\* a database with legacy recipes, one ingredient row each
InitLegacy ==
    /\ \E n \in 0..MaxRecipes :
           /\ recipes \in LegacyRecipes(n)
           /\ nextId = n + 1
           /\ recipe_ingredients =
                  {[recipe |-> pk, ingredient |-> 1, amount |-> 1] : pk \in 1..n}
    /\ shopping_cart = EmptyBag
    /\ favorite = EmptyBag
    /\ subscription = EmptyBag
    /\ response = Response("none", 0, 0, 0)
    /\ ingredient_rows = IngredientTable
    /\ inflight = <<>>
    /\ waiter = WaiterStart
    /\ db = "down"

NextSub ==
    \E user \in Users, author \in UserIds :
        \/ Subscribe(user, author)
        \/ Unsubscribe(user, author)

SpecSub == Init /\ [][NextSub]_vars

\* recipe creation, update and deletion with the smallest payloads, and the
\* short-link redirect
NextCode ==
    \/ \E author \in Shoppers, ingredients \in MinimalIngredientInputs,
          tags \in MinimalTagInputs, cooking_time \in MinimalCookingTimes,
          code \in generate_short_code :
            CreateRecipe(author, ingredients, tags, cooking_time, code)
    \/ \E user \in Shoppers, pk \in RecipePks, ingredients \in MinimalIngredientInputs,
          tags \in MinimalTagInputs, cooking_time \in MinimalCookingTimes :
            UpdateRecipe(user, pk, ingredients, tags, cooking_time)
    \/ \E user \in Shoppers, pk \in RecipePks : DeleteRecipe(user, pk)
    \/ \E short_code \in RequestCodes : redirect_to_recipe(short_code)

SpecCode == Init /\ [][NextCode]_vars

\* recipes and the shopping cart
Next ==
    \/ \E author \in Shoppers, ingredients \in IngredientInputs, tags \in TagInputs,
          cooking_time \in CookingTimes, code \in generate_short_code :
            CreateRecipe(author, ingredients, tags, cooking_time, code)
    \/ \E user \in Shoppers, pk \in RecipePks : DeleteRecipe(user, pk)
    \/ \E user \in Shoppers, pk \in RecipePks : shopping_cart_post(user, pk)
    \/ \E user \in Shoppers, pk \in RecipePks : shopping_cart_delete(user, pk)
    \/ \E user \in Shoppers, format \in FormatInputs : DownloadShoppingCartGet(user, format)

Spec == Init /\ [][Next]_vars

\* recipes with the smallest payloads, shopping cart and favorites
NextFav ==
    \/ \E author \in Shoppers, ingredients \in MinimalIngredientInputs,
          tags \in MinimalTagInputs, cooking_time \in MinimalCookingTimes,
          code \in generate_short_code :
            CreateRecipe(author, ingredients, tags, cooking_time, code)
    \/ \E user \in Shoppers, pk \in RecipePks, ingredients \in MinimalIngredientInputs,
          tags \in MinimalTagInputs, cooking_time \in MinimalCookingTimes :
            UpdateRecipe(user, pk, ingredients, tags, cooking_time)
    \/ \E user \in Shoppers, pk \in RecipePks : DeleteRecipe(user, pk)
    \/ \E user \in Shoppers, pk \in RecipePks : shopping_cart_post(user, pk)
    \/ \E user \in Shoppers, pk \in RecipePks : shopping_cart_delete(user, pk)
    \/ \E user \in Shoppers, pk \in RecipePks : favorite_post(user, pk)
    \/ \E user \in Shoppers, pk \in RecipePks : favorite_delete(user, pk)
    \/ \E user \in Shoppers : DownloadShoppingCartGet(user, Absent)

SpecFav == Init /\ [][NextFav]_vars

\* recipes with the smallest payloads, the shopping cart, and the shopping list by
\* download and by e-mail
NextMail ==
    \/ \E author \in Shoppers, ingredients \in MinimalIngredientInputs,
          tags \in MinimalTagInputs, cooking_time \in MinimalCookingTimes,
          code \in generate_short_code :
            CreateRecipe(author, ingredients, tags, cooking_time, code)
    \/ \E user \in Shoppers, pk \in RecipePks : shopping_cart_post(user, pk)
    \/ \E user \in Shoppers, pk \in RecipePks : shopping_cart_delete(user, pk)
    \/ \E user \in Shoppers, format \in FormatInputs : DownloadShoppingCartGet(user, format)
    \/ \E user \in Shoppers, email \in EmailInputs, format \in PostFormatInputs,
          transport \in TransportStates :
            DownloadShoppingCartPost(user, email, format, transport)

SpecMail == Init /\ [][NextMail]_vars

\* subscribe requests handled at the same time
NextSubSteps ==
    \/ \E r \in Requests, user \in Users, author \in UserIds : SubscribeBegin(r, user, author)
    \/ \E r \in Requests : SubscribeExists(r)
    \/ \E r \in Requests : SubscribeCreate(r)

SpecSubSteps == Init /\ [][NextSubSteps]_vars

\* recipe create and update requests handled at the same time
NextRecipeSteps ==
    \/ \E r \in Requests, author \in Shoppers, ingredients \in StepIngredientInputs,
          tags \in MinimalTagInputs, cooking_time \in MinimalCookingTimes,
          code \in generate_short_code :
            CreateInsert(r, author, ingredients, tags, cooking_time, code)
    \/ \E r \in Requests, user \in Shoppers, pk \in RecipePks,
          ingredients \in StepIngredientInputs, tags \in MinimalTagInputs,
          cooking_time \in MinimalCookingTimes :
            UpdateSave(r, user, pk, ingredients, tags, cooking_time)
    \/ \E r \in Requests : StepSetTags(r)
    \/ \E r \in Requests : StepDeleteRows(r)
    \/ \E r \in Requests : StepCreateIngredients(r)

SpecRecipeSteps == Init /\ [][NextRecipeSteps]_vars

\* recipe requests with every payload
NextRecipe ==
    \/ \E author \in Shoppers, p \in RecipePayloads, code \in generate_short_code :
            CreateRecipe(author, p[1], p[2], p[3], code)
    \/ \E method \in {"PUT", "PATCH"}, user \in Shoppers, pk \in RecipePks,
          p \in UpdatePayloads :
            RecipeUpdateRequest(method, user, pk, p[1], p[2], p[3])
    \/ \E user \in Shoppers, pk \in RecipePks : DeleteRecipe(user, pk)

SpecRecipe == Init /\ [][NextRecipe]_vars

\* the export generators applied to a data list
InitExport ==
    /\ recipes = <<>>
    /\ nextId = 1
    /\ recipe_ingredients = {}
    /\ shopping_cart = EmptyBag
    /\ favorite = EmptyBag
    /\ subscription = EmptyBag
    /\ \E data \in ExportInputs :
           response = [Response("data", 0, 0, 0) EXCEPT !.rows = data]
    /\ ingredient_rows = IngredientTable
    /\ inflight = <<>>
    /\ waiter = WaiterStart
    /\ db = "down"

NextExport ==
    \/ CallViewText
    \/ CallUtilsText
    \/ CallViewCsv
    \/ CallUtilsCsv

SpecExport == InitExport /\ [][NextExport]_vars

\* runs of the ingredient loader
NextLoad ==
    \/ \E file \in Files : LoadIngredients(file)
    \/ LoadIngredientsNoFile

SpecLoad == Init /\ [][NextLoad]_vars

\* a database with legacy recipes: the generate_short_links command and the
\* recipe requests with the smallest payloads
NextLinks ==
    \/ GenerateShortLinks
    \/ \E author \in Shoppers, ingredients \in MinimalIngredientInputs,
          tags \in MinimalTagInputs, cooking_time \in MinimalCookingTimes,
          code \in generate_short_code :
            CreateRecipe(author, ingredients, tags, cooking_time, code)
    \/ \E user \in Shoppers, pk \in RecipePks, ingredients \in MinimalIngredientInputs,
          tags \in MinimalTagInputs, cooking_time \in MinimalCookingTimes :
            UpdateRecipe(user, pk, ingredients, tags, cooking_time)
    \/ \E user \in Shoppers, pk \in RecipePks : DeleteRecipe(user, pk)

SpecLinks == InitLegacy /\ [][NextLinks]_vars

\* the start-up script and the database server it waits for
NextWait ==
    \/ WaitLoop
    \/ WaitConnect
    \/ WaitClose
    \/ WaitExcept
    \/ WaitSleep
    \/ WaitExit
    \/ DbStarts
    \/ DbStops

\* the process keeps running until it returns or exits
SpecWait == Init /\ [][NextWait]_vars /\ WF_vars(WaitStep)

\* ================================================================== claims

\* C8: no subscription has user = author in any reachable state, and a request of
\* a user to subscribe to themselves is answered 400 and leaves the table as it was.
C8_NoSelfSubscription ==
    /\ [](\A u \in Users : ~BagIn(<<u, u>>, subscription))
    /\ [][(response'.op = "subscribe" /\ response'.user = response'.target)
            => (/\ response'.status = HTTP_400_BAD_REQUEST
                /\ subscription' = subscription)]_vars

\* a self-subscribe request was made and refused while another subscription exists
C8_Witness ==
    /\ response.op = "subscribe"
    /\ response.user = response.target
    /\ response.status = HTTP_400_BAD_REQUEST
    /\ subscription # EmptyBag

\* C9: at most one subscription row per (user, author); a subscribe to an author
\* already subscribed to is answered 400 and changes nothing, an unsubscribe from an
\* author not subscribed to is answered 400 and changes nothing, a 201 adds exactly
\* the requested pair and a 204 removes exactly the requested pair.
C9_SubscriptionUnique ==
    /\ [](\A p \in DOMAIN subscription : subscription[p] = 1)
    /\ [][LET u == response'.user
              a == response'.target
              valid == AuthorExists(a) /\ u # a
          IN  /\ (response'.op = "subscribe" /\ valid) =>
                    /\ BagIn(<<u, a>>, subscription) =>
                          /\ response'.status = HTTP_400_BAD_REQUEST
                          /\ subscription' = subscription
                    /\ ~BagIn(<<u, a>>, subscription) =>
                          response'.status = HTTP_201_CREATED
                    /\ response'.status = HTTP_201_CREATED =>
                          /\ ~BagIn(<<u, a>>, subscription)
                          /\ subscription' = subscription (+) SetToBag({<<u, a>>})
              /\ (response'.op = "unsubscribe" /\ valid) =>
                    /\ ~BagIn(<<u, a>>, subscription) =>
                          /\ response'.status = HTTP_400_BAD_REQUEST
                          /\ subscription' = subscription
                    /\ BagIn(<<u, a>>, subscription) =>
                          response'.status = HTTP_204_NO_CONTENT
                    /\ response'.status = HTTP_204_NO_CONTENT =>
                          /\ BagIn(<<u, a>>, subscription)
                          /\ subscription' = DeleteRows(subscription, {<<u, a>>})
         ]_vars

\* a duplicate subscribe was refused while the user also follows a second author
C9_Witness ==
    /\ response.op = "subscribe"
    /\ response.status = HTTP_400_BAD_REQUEST
    /\ response.user # response.target
    /\ AuthorExists(response.target)
    /\ BagIn(<<response.user, response.target>>, subscription)
    /\ \E x \in Users : x # response.target /\ BagIn(<<response.user, x>>, subscription)

\* C4: no two stored recipes have the same short code.
C4_ShortCodeUnique ==
    \A a, b \in DOMAIN recipes : a # b => recipes[a].short_link # recipes[b].short_link

\* a second recipe has just been created and both are stored
C4_Witness ==
    /\ response.op = "create"
    /\ response.status = HTTP_201_CREATED
    /\ Cardinality(DOMAIN recipes) = 2

\* C5 (as claimed): a valid creation request never fails because the generated code
\* collides; the recipe is created, with a code no other recipe has.
C5_RetryOnCollision ==
    (response.op = "create" /\ response.status # HTTP_400_BAD_REQUEST) =>
        /\ response.status = HTTP_201_CREATED
        /\ response.target \in DOMAIN recipes
        /\ \A id \in DOMAIN recipes \ {response.target} :
               recipes[id].short_link # recipes[response.target].short_link

\* C6 (as claimed): the code allocated to a stored recipe decodes to that recipe's id,
\* so the redirect of its code leads to the recipe itself.
C6_RoundTrip ==
    \A id \in DOMAIN recipes :
        /\ decode_base62(recipes[id].short_link) = id
        /\ get_object_or_404(decode_base62(recipes[id].short_link))

\* C7: the redirect endpoint answers 404 for a code that cannot be decoded and for a
\* code that decodes to the id of no stored recipe; it redirects only to the stored
\* recipe the code decodes to, and answers nothing but 302 or 404.
C7_RedirectNotFound ==
    response.op = "redirect" =>
        LET code == response.code
            known == ~Base62Malformed(code) /\ Base62Value(code) \in DOMAIN recipes
        IN  /\ response.status \in {HTTP_302_FOUND, HTTP_404_NOT_FOUND}
            /\ ~known => response.status = HTTP_404_NOT_FOUND
            /\ response.status = HTTP_302_FOUND =>
                   known /\ response.target = Base62Value(code)

\* a malformed code was answered 404 while recipes are stored
C7_Witness ==
    /\ response.op = "redirect"
    /\ Base62Malformed(response.code)
    /\ response.status = HTTP_404_NOT_FOUND
    /\ DOMAIN recipes # {}

\* the recipes in the cart of a user, and the ingredient rows of those recipes
CartRecipes(user) == {id \in DOMAIN recipes : BagIn(<<user, id>>, shopping_cart)}
CartRows(user) == {row \in recipe_ingredients : row.recipe \in CartRecipes(user)}

RECURSIVE SumRows(_)
SumRows(rows) ==
    IF rows = {} THEN 0
    ELSE LET r == CHOOSE x \in rows : TRUE IN r.amount + SumRows(rows \ {r})

\* C1 (as claimed): a download by a user whose cart recipes have ingredient rows
\* returns, for every ingredient of those recipes, exactly one row with its name and
\* unit whose total is the sum of its amounts over the cart recipes, and no other row.
C1_AggregatedTotals ==
    LET user == response.user
        ings == {row.ingredient : row \in CartRows(user)}
        rowsOf(i) == {r \in response.rows :
                         /\ r.name = IngredientTable[i].name
                         /\ r.unit = IngredientTable[i].measurement_unit}
    IN  (response.op = "download" /\ ings # {}) =>
            /\ response.status = HTTP_200_OK
            /\ \A i \in ings :
                   /\ Cardinality(rowsOf(i)) = 1
                   /\ \A r \in rowsOf(i) :
                          r.total = SumRows({row \in CartRows(user) : row.ingredient = i})
            /\ \A r \in response.rows : \E i \in ings : r \in rowsOf(i)

\* C2 (as claimed): a download by a user with an empty cart is answered 200, in
\* every format, with a file whose content says that the list is empty.
C2_EmptyCartDownload ==
    (response.op = "download" /\ CartRows(response.user) = {}) =>
        /\ response.status = HTTP_200_OK
        /\ response.content \in {"empty", "header"}
        /\ response.rows = {}

\* C3: the cart holds at most one row per (user, recipe), and a request to add a
\* recipe that is already in the user's cart is answered 400 and leaves the cart
\* as it was.
C3_CartUnique ==
    /\ [](\A p \in DOMAIN shopping_cart : shopping_cart[p] = 1)
    /\ [][(/\ response'.op = "cart_add"
           /\ BagIn(<<response'.user, response'.target>>, shopping_cart))
            => (/\ response'.status = HTTP_400_BAD_REQUEST
                /\ shopping_cart' = shopping_cart)]_vars

\* a second add of a recipe was refused while another user holds the same recipe
C3_Witness ==
    /\ response.op = "cart_add"
    /\ response.status = HTTP_400_BAD_REQUEST
    /\ BagIn(<<response.user, response.target>>, shopping_cart)
    /\ \E u \in Users \ {response.user} : BagIn(<<u, response.target>>, shopping_cart)

\* C10: every cart row, favorite row and recipe-ingredient row refers to a stored
\* recipe, a recipe answered 204 on delete is stored no more, and no user's shopping
\* list draws on a row of a recipe that is not stored.
C10_DeleteCascade ==
    /\ \A p \in DOMAIN shopping_cart : p[2] \in DOMAIN recipes
    /\ \A p \in DOMAIN favorite : p[2] \in DOMAIN recipes
    /\ \A row \in recipe_ingredients : row.recipe \in DOMAIN recipes
    /\ (response.op = "delete" /\ response.status = HTTP_204_NO_CONTENT) =>
           response.target \notin DOMAIN recipes
    /\ \A user \in Users : \A j \in CartJoin(user) : j.row.recipe \in DOMAIN recipes

\* a recipe was deleted while the other recipe keeps its cart row, favorite row and
\* ingredient rows
C10_Witness ==
    /\ response.op = "delete"
    /\ response.status = HTTP_204_NO_CONTENT
    /\ shopping_cart # EmptyBag
    /\ favorite # EmptyBag
    /\ recipe_ingredients # {}
    /\ response.target < nextId

\* C11: a change of another user's cart changes neither the aggregated rows of a
\* user's shopping list nor the answer the user gets from the download and e-mail
\* endpoints.
C11_OwnCartOnly ==
    [][\A a \in Users :
          (response'.op \in {"cart_add", "cart_remove"} /\ response'.user # a) =>
              /\ Aggregate(CartJoin(a))' = Aggregate(CartJoin(a))
              /\ \A f \in FormatInputs : DownloadResponse(a, f)' = DownloadResponse(a, f)
              /\ \A f \in PostFormatInputs, e \in EmailInputs, t \in TransportStates :
                     PostResponse(a, e, f, t)' = PostResponse(a, e, f, t)
      ]_vars

\* a user has just added to their cart a recipe that is in another user's cart too
C11_Witness ==
    /\ response.op = "cart_add"
    /\ response.status = HTTP_201_CREATED
    /\ \E a \in Users \ {response.user} :
           /\ BagIn(<<a, response.target>>, shopping_cart)
           /\ CartJoin(a) # {}

\* C12: a favorite request leaves the cart as it was and a cart request leaves the
\* favorites as they were, and whether an add is accepted depends on the table it
\* adds to alone.
C12_FavoriteCartIndependent ==
    [][LET u == response'.user
           pk == response'.target
       IN  /\ response'.op \in {"favorite_add", "favorite_remove"} =>
                  shopping_cart' = shopping_cart
           /\ response'.op \in {"cart_add", "cart_remove"} => favorite' = favorite
           /\ (response'.op = "favorite_add" /\ RecipeLookup(pk)) =>
                  (response'.status = HTTP_201_CREATED <=> ~BagIn(<<u, pk>>, favorite))
           /\ (response'.op = "cart_add" /\ RecipeLookup(pk)) =>
                  (response'.status = HTTP_201_CREATED <=> ~BagIn(<<u, pk>>, shopping_cart))
      ]_vars

\* after a favorite was added there is a pair in both tables, a pair in the cart
\* alone, a pair in the favorites alone and a pair in neither
C12_Witness ==
    /\ response.op = "favorite_add"
    /\ response.status = HTTP_201_CREATED
    /\ \E p1, p2, p3, p4 \in Shoppers \X DOMAIN recipes :
           /\ BagIn(p1, shopping_cart) /\ BagIn(p1, favorite)
           /\ BagIn(p2, shopping_cart) /\ ~BagIn(p2, favorite)
           /\ ~BagIn(p3, shopping_cart) /\ BagIn(p3, favorite)
           /\ ~BagIn(p4, shopping_cart) /\ ~BagIn(p4, favorite)

C14_GenericError ==
    response.op \in {"download", "send"} =>
        \/ response.status = HTTP_200_OK /\ response.content \notin {"error", "unhandled"}
        \/ response.status = HTTP_500_INTERNAL_SERVER_ERROR /\ response.content = "error"

\* C15 (as claimed): a request whose format is omitted or is a string other than
\* pdf and csv in any case is not rejected: the download returns the text file, and
\* the e-mail is sent with the text attachment when the cart is not empty.
C15_TextFallback ==
    LET text == HasLower(response.fmt) /\ FileFormat(response.fmt) \notin {"pdf", "csv"}
    IN  /\ (response.op = "download" /\ text) =>
               /\ response.status = HTTP_200_OK
               /\ response.mime = "text/plain"
        /\ (response.op = "send" /\ text /\ response.transport = "up") =>
               /\ response.status = HTTP_200_OK
               /\ response.mail # NoMail
               /\ CartRows(response.user) # {} =>
                      \A m \in Range(response.mail) :
                          /\ Len(m.attachments) = 1
                          /\ m.attachments[1].mime = "text/plain"

\* the MIME type of a format
MimeOf(f) ==
    CASE f = "pdf" -> "application/pdf" [] f = "csv" -> "text/csv" [] OTHER -> "text/plain"

\* C16 (as claimed): a GET download with format txt, csv or pdf is answered, for an
\* empty and for a filled cart, with an attachment named shopping_list.<format> of
\* the MIME type of the format.
C16_FilenameAndMime ==
    (response.op = "download" /\ FileFormat(response.fmt) \in {"txt", "csv", "pdf"}) =>
        /\ response.status = HTTP_200_OK
        /\ response.filename = "shopping_list." \o FileFormat(response.fmt)
        /\ response.mime = MimeOf(FileFormat(response.fmt))

\* C17 (as claimed): the e-mail of a POST download says 'attached' in its body for
\* every format when the cart is filled and 'empty' when the cart is empty.
C17_MailBody ==
    (response.op = "send" /\ HasLower(response.fmt) /\ response.transport = "up") =>
        /\ response.mail # NoMail
        /\ \A m \in Range(response.mail) :
               m.body = IF CartRows(response.user) = {} THEN "empty" ELSE "attached"

\* C18 (as claimed): the e-mail of a POST download has exactly one attachment, named
\* shopping_list.<format> with the MIME type of the format, when the cart is filled,
\* and none when the cart is empty.
C18_MailAttachment ==
    (response.op = "send" /\ HasLower(response.fmt) /\ response.transport = "up") =>
        /\ response.mail # NoMail
        /\ \A m \in Range(response.mail) :
               IF CartRows(response.user) = {}
               THEN m.attachments = <<>>
               ELSE LET f == IF FileFormat(response.fmt) \in {"pdf", "csv"}
                             THEN FileFormat(response.fmt) ELSE "txt"
                    IN  /\ Len(m.attachments) = 1
                        /\ m.attachments[1].filename = "shopping_list." \o f
                        /\ m.attachments[1].mime = MimeOf(f)

\* C19 (as claimed): the e-mail of a POST download goes to one recipient, the
\* address of the request body when it has one and the registered address of the
\* user otherwise.
C19_MailRecipient ==
    (response.op = "send" /\ HasLower(response.fmt) /\ response.transport = "up") =>
        /\ response.mail # NoMail
        /\ \A m \in Range(response.mail) :
               m.to = <<IF response.email = Absent THEN UserEmail(response.user)
                        ELSE response.email>>

\* C20 (as claimed): the CSV download of a user with an empty cart is a CSV file
\* with the header row and no data row.
C20_EmptyCsvHeader ==
    (/\ response.op = "download"
     /\ FileFormat(response.fmt) = "csv"
     /\ CartRows(response.user) = {}) =>
        /\ response.status = HTTP_200_OK
        /\ response.mime = "text/csv"
        /\ response.content = "header"
        /\ response.rows = {}

\* C30: wait_for_db terminates; it makes at most 15 connection attempts, makes no
\* attempt and no other step after the first successful one, exits with status 1
\* exactly when 15 attempts failed, and has slept the retry delay once for every
\* failed attempt and never after a successful one.
C30_WaitTerminates ==
    /\ [](/\ waiter.attempts <= max_retries
          /\ waiter.pc = "returned" =>
                 /\ waiter.attempts = waiter.failures + 1
                 /\ waiter.exit = NoExit
                 /\ waiter.slept = waiter.failures * retry_delay
          /\ waiter.exit = 1 <=> waiter.pc = "exited"
          /\ waiter.pc = "exited" =>
                 /\ waiter.failures = max_retries
                 /\ waiter.attempts = max_retries
                 /\ waiter.slept = max_retries * retry_delay
          /\ waiter.failures = max_retries => waiter.pc \notin {"close", "returned"})
    /\ [][waiter.pc \in {"returned", "exited"} => waiter' = waiter]_vars
    /\ <>(waiter.pc \in {"returned", "exited"})

\* the process returned after failed attempts
C30_Witness ==
    /\ waiter.pc = "returned"
    /\ waiter.failures >= 2
    /\ waiter.slept = waiter.failures * retry_delay

\* C29 (as claimed): once generate_short_links has run, every stored recipe has a
\* non-empty short code.
C29_EveryRecipeHasCode ==
    response.op = "generate_short_links" =>
        \A pk \in DOMAIN recipes : recipes[pk].short_link \notin {NoCode, Null}

\* the requests to subscribe user to author, and those of them already answered
SubscribeRequests(user, author) ==
    {r \in DOMAIN inflight : inflight[r].user = user /\ inflight[r].author = author}

\* C26 (as claimed): whatever the interleaving of the subscribe requests for a pair,
\* the pair has at most one row, no request ends in an unhandled error, and once all
\* are answered exactly one got 201 and every other one 400.
C26_ConcurrentSubscribe ==
    /\ \A p \in DOMAIN subscription : subscription[p] = 1
    /\ \A r \in DOMAIN inflight : inflight[r].status # HTTP_500_INTERNAL_SERVER_ERROR
    /\ \A user \in Users, author \in Users :
           LET rs == SubscribeRequests(user, author)
           IN  (user # author /\ rs # {} /\ \A r \in rs : inflight[r].pc = "done") =>
                   /\ Cardinality({r \in rs : inflight[r].status = HTTP_201_CREATED}) = 1
                   /\ \A r \in rs : inflight[r].status \in
                                        {HTTP_201_CREATED, HTTP_400_BAD_REQUEST}

\* C27 (as claimed): in every state, those between the steps of a create or update
\* and those left by a failed step included, every stored recipe has at least one
\* ingredient row and at least one tag.
C27_AllOrNothing ==
    \A pk \in DOMAIN recipes :
        /\ recipes[pk].tags # {}
        /\ \E row \in recipe_ingredients : row.recipe = pk

\* C27, for the requests that have been answered: no answered request has left a
\* recipe without tags or without ingredient rows.
C27_AfterFailure ==
    (\A r \in DOMAIN inflight : inflight[r].pc = "done") =>
        \A pk \in DOMAIN recipes :
            /\ recipes[pk].tags # {}
            /\ \E row \in recipe_ingredients : row.recipe = pk

\* a payload the claim calls invalid: no ingredient or one named twice, no tag or
\* one named twice, a cooking time below 1
InvalidPayload(ingredients, tags, cooking_time) ==
    \/ Len(ingredients) = 0
    \/ \E i, j \in 1..Len(ingredients) : i < j /\ ingredients[i].id = ingredients[j].id
    \/ Len(tags) = 0
    \/ \E i, j \in 1..Len(tags) : i < j /\ tags[i] = tags[j]
    \/ cooking_time < 1

\* the tables of recipes
RecipeTables == <<recipes, recipe_ingredients>>

\* C24: a create request, or an update request of the author of a stored recipe,
\* with an invalid payload is answered 400 and changes no recipe, tag or ingredient
\* row; and in every state a recipe has at most one row per ingredient.
C24_ValidationRejects ==
    /\ [](\A a, b \in recipe_ingredients :
              (a.recipe = b.recipe /\ a.ingredient = b.ingredient) => a = b)
    /\ [][\A p \in RecipePayloads :
             (response'.op \in {"create", "update"} /\ InvalidPayload(p[1], p[2], p[3])) =>
                 /\ \A author \in Shoppers, code \in generate_short_code :
                        CreateRecipe(author, p[1], p[2], p[3], code) =>
                            /\ response'.status = HTTP_400_BAD_REQUEST
                            /\ RecipeTables' = RecipeTables
                 /\ \A method \in {"PUT", "PATCH"}, pk \in DOMAIN recipes :
                        RecipeUpdateRequest(method, recipes[pk].author, pk,
                                            Given(p[1]), Given(p[2]), p[3]) =>
                            /\ response'.status = HTTP_400_BAD_REQUEST
                            /\ RecipeTables' = RecipeTables
          ]_vars

\* an update of a recipe with two ingredient rows was refused as invalid
C24_Witness ==
    /\ response.op = "update"
    /\ response.status = HTTP_400_BAD_REQUEST
    /\ response.target \in DOMAIN recipes
    /\ Cardinality({row \in recipe_ingredients : row.recipe = response.target}) = 2

\* the (ingredient, amount) pairs of the rows of a recipe in a table
PairsOf(rows, pk) == {<<row.ingredient, row.amount>> : row \in {x \in rows : x.recipe = pk}}

UpperOrDigit ==
    {"A", "B", "C", "D", "E", "F", "G", "H", "I", "J", "K", "L", "M", "N", "O", "P",
     "Q", "R", "S", "T", "U", "V", "W", "X", "Y", "Z",
     "0", "1", "2", "3", "4", "5", "6", "7", "8", "9"}

C25_IngredientsUnique ==
    /\ [](\A a, b \in DOMAIN ingredient_rows :
              ingredient_rows[a] = ingredient_rows[b] => a = b)
    /\ [](\A a \in DOMAIN ingredient_rows :
              /\ Strip(ingredient_rows[a].name) = ingredient_rows[a].name
              /\ Strip(ingredient_rows[a].measurement_unit) =
                     ingredient_rows[a].measurement_unit)
    /\ [][response'.op = "load_ingredients" =>
              /\ SubSeq(ingredient_rows', 1, Len(ingredient_rows)) = ingredient_rows
              /\ response'.content = "loaded" =>
                     response'.target = Len(ingredient_rows') - Len(ingredient_rows)
              /\ (response.op = "load_ingredients" /\ response'.rows = response.rows
                      /\ response'.content # "no file" /\ response.content # "no file") =>
                     ingredient_rows' = ingredient_rows]_vars

\* a file with a new ingredient in two spellings was loaded a second time and
\* nothing was created
C25_Witness ==
    /\ response.op = "load_ingredients"
    /\ response.content = "loaded"
    /\ response.target = 0
    /\ response.rows = {<<HeaderRow, <<"salt", "g">>, <<"salt", " g">> >>}
    /\ Len(ingredient_rows) = Len(IngredientTable) + 1

\* the line of a row as the text format gives it
FormatLine(row) ==
    row.name \o <<" ", "(">> \o row.unit \o <<")", " ", EmDash, " ">> \o Str(row.total)

\* the position in the text at which the line of row i starts
RECURSIVE LineStart(_, _)
LineStart(data, i) ==
    IF i = 1 THEN 1
    ELSE LineStart(data, i - 1) + Len(FormatLine(data[i - 1])) + 1

TextOps == {"_generate_text_content", "generate_text_content"}

ScenarioLines ==
    {<<"f", "l", "o", "u", "r", " ", "(", "g", ")", " ", EmDash, " ", "1", "5", "0">>,
     <<"e", "g", "g", " ", "(", "p", "c", "s", ")", " ", EmDash, " ", "2">>,
     <<"m", "i", "l", "k", " ", "(", "m", "l", ")", " ", EmDash, " ", "2", "0", "0">>}

\* C22: the text generated for n rows is the lines of the rows in order, a newline
\* between two lines and none after the last; with no newline inside a name or unit
\* the text has n - 1 newlines; for the cart of recipe 1 (flour 100 g, egg 2) and
\* recipe 2 (flour 50 g, milk 200 ml) the lines are those of flour 150, egg 2 and
\* milk 200.
C22_TextExport ==
    response.op \in TextOps =>
        LET data == response.rows
            text == response.content.text
            n == Len(data)
            first(i) == LineStart(data, i)
            last(i) == LineStart(data, i) + Len(FormatLine(data[i])) - 1
        IN  /\ response.content.raised = ""
            /\ Len(text) = IF n = 0 THEN 0 ELSE last(n)
            /\ \A i \in 1..n :
                   /\ SubSeq(text, first(i), last(i)) = FormatLine(data[i])
                   /\ i < n => text[last(i) + 1] = "\n"
            /\ (n > 0 /\ \A i \in 1..n : "\n" \notin Range(data[i].name \o data[i].unit)) =>
                   Cardinality({k \in 1..Len(text) : text[k] = "\n"}) = n - 1
            /\ data \in DataLists(Aggregate(ScenarioJoin)) =>
                   {SubSeq(text, first(i), last(i)) : i \in 1..n} = ScenarioLines

\* the text of the scenario cart was generated, three lines long
C22_Witness ==
    /\ response.op = "_generate_text_content"
    /\ Len(response.rows) = 3
    /\ response.content.text =
           <<"f", "l", "o", "u", "r", " ", "(", "g", ")", " ", EmDash, " ", "1", "5", "0", "\n",
             "e", "g", "g", " ", "(", "p", "c", "s", ")", " ", EmDash, " ", "2", "\n",
             "m", "i", "l", "k", " ", "(", "m", "l", ")", " ", EmDash, " ", "2", "0", "0">>

\* a CSV reader: fields end at a comma, rows at a newline, a quoted field may hold
\* both, and a doubled quote inside a quoted field is one quote
RECURSIVE ParseCsv(_, _, _, _, _, _)
ParseCsv(text, i, quoted, field, row, rows) ==
    IF i > Len(text)
    THEN IF text = <<>> THEN rows ELSE Append(rows, Append(row, field))
    ELSE IF quoted
    THEN IF text[i] # "\""
         THEN ParseCsv(text, i + 1, TRUE, Append(field, text[i]), row, rows)
         ELSE IF i < Len(text) /\ text[i + 1] = "\""
         THEN ParseCsv(text, i + 2, TRUE, Append(field, "\""), row, rows)
         ELSE ParseCsv(text, i + 1, FALSE, field, row, rows)
    ELSE IF text[i] = "\"" THEN ParseCsv(text, i + 1, TRUE, field, row, rows)
    ELSE IF text[i] = "," THEN ParseCsv(text, i + 1, FALSE, <<>>, Append(row, field), rows)
    ELSE IF text[i] = "\n"
    THEN ParseCsv(text, i + 1, FALSE, <<>>, <<>>, Append(rows, Append(row, field)))
    ELSE ParseCsv(text, i + 1, FALSE, Append(field, text[i]), row, rows)

CsvOps == {"_generate_csv_content", "generate_csv_content"}

\* C21: the CSV generator returns a text, and reading that text gives the header
\* row followed by the (name, unit, total) of every row, in order.
C21_CsvRoundTrip ==
    response.op \in CsvOps =>
        /\ response.content.raised = ""
        /\ ParseCsv(response.content.text, 1, FALSE, <<>>, <<>>, <<>>) =
               <<[i \in 1..3 |-> <<CsvHeader[i]>>]>>
                   \o [i \in DOMAIN response.rows |->
                          <<response.rows[i].name, response.rows[i].unit,
                            Str(response.rows[i].total)>>]

====
